---- MODULE Spec2Model ----
(***************************************************************************)
(* weave_python: weaving a Hamiltonian cycle of a Manhattan ball of n      *)
(* layers.  The model follows weave() step by step: spin_yarn, then for    *)
(* every shell pin_thread_ends / chop / extend_threads, then               *)
(* mirror_chains, then merge_cycles (one action per donor thread), then    *)
(* main()'s check_solution.  A point is a tuple <<x, y, z>> (a yarn point  *)
(* a tuple <<x, y>>), a thread a sequence of points, the loom a sequence   *)
(* of threads.                                                             *)
(***************************************************************************)
EXTENDS Integers, Sequences, FiniteSets

VARIABLES
    n,          \* weave's argument: the number of layers
    pc,         \* position in weave() / main()
    yarns,      \* spin_yarn's result: colour -> sequence of 2D points
    shell,      \* index of the next (z, color, size) triple of get_z_color_size
    loom,       \* the threads
    pins,       \* result of pin_thread_ends for the current shell
    subtours,   \* result of chop for the current shell
    weaver,     \* the Weaver object of merge_cycles
    idx,        \* merge_cycles: index of the next donor thread in the loom
    err         \* the exception that ended the run, "none" while there is none

vars == <<n, pc, yarns, shell, loom, pins, subtours, weaver, idx, err>>

\* Largest layer count given to weave.
MaxN == 8
\* Layer counts below the minimum go down to -MaxNeg.
MaxNeg == 1
\* Longest sequence of points given to check_solution on its own.
MaxSolLen == 4
\* Longest tour given to chop on its own.
MaxTourLen == 4

(***************************************************************************)
(* Sequences                                                               *)
(***************************************************************************)
Reverse(s) == [i \in 1..Len(s) |-> s[Len(s) + 1 - i]]

\* s[a:b] of Python for 0 <= a, b: the elements at 0-based positions a..b-1.
Slice(s, a, b) ==
    LET hi == IF b < Len(s) THEN b ELSE Len(s)
    IN  IF a >= hi THEN <<>> ELSE [i \in 1..(hi - a) |-> s[a + i]]

Points(s) == {s[i] : i \in 1..Len(s)}

Abs(v) == IF v < 0 THEN -v ELSE v

\* s[lo] + ... + s[hi], by halves.
RECURSIVE SumRange(_, _, _)
SumRange(s, lo, hi) ==
    IF lo > hi THEN 0
    ELSE IF lo = hi THEN s[lo]
    ELSE LET mid == (lo + hi) \div 2
         IN  SumRange(s, lo, mid) + SumRange(s, mid + 1, hi)

(***************************************************************************)
(* src/weaver/info.py                                                      *)
(***************************************************************************)
get_order_from_n(n_level) == (4 * (n_level + 2) * (n_level + 1) * n_level) \div 3

get_radius_from_n(n_level) == n_level * 2 - 1

get_n_from_radius(radius) == (radius + 1) \div 2

get_order_from_radius(radius) == get_order_from_n(get_n_from_radius(radius))

\* range(-(n_level * 2 - 1), 0, 2) has this many elements.
ZRangeLen(n_level) == IF n_level >= 1 THEN n_level ELSE 0

\* The colour list as (1, 3) repeated, whatever the parity of n_level.
ColorAt_one_first(n_level, i) == IF i % 2 = 1 THEN 1 ELSE 3

\* The colour list: the pair (1, 3) or (3, 1) repeated n_level times.
ColorAt(n_level, i) ==
    IF n_level % 2 = 0
    THEN (IF i % 2 = 1 THEN 1 ELSE 3)
    ELSE (IF i % 2 = 1 THEN 3 ELSE 1)

\* get_z_color_size with the z range walked from -1 down to -(2 * n_level - 1).
get_z_color_size_downwards(n_level) ==
    [i \in 1..ZRangeLen(n_level) |->
        <<-(2 * i - 1), ColorAt(n_level, i), 2 * i * (i + 1)>>]

\* zip(...) of the three: as long as the shortest, here the z range.
get_z_color_size(n_level) ==
    [i \in 1..ZRangeLen(n_level) |->
        <<-(n_level * 2 - 1) + 2 * (i - 1), ColorAt(n_level, i), 2 * i * (i + 1)>>]

(***************************************************************************)
(* src/weaver/ops.py: spin_yarn                                            *)
(***************************************************************************)
\* XY zigzag displacement vectors.
zigzags ==
    << << <<0, 2>>,  <<2, 0>>  >>,
       << <<0, 2>>,  <<-2, 0>> >>,
       << <<0, -2>>, <<-2, 0>> >>,
       << <<0, -2>>, <<2, 0>>  >> >>

\* not ((radius + 1) // 2) % 2
EvenLayers(radius) == ((radius + 1) \div 2) % 2 = 0

\* The two start vectors exchanged.
SpinStart_swapped(radius) == IF EvenLayers(radius) THEN <<-1, 1>> ELSE <<1, 1>>

SpinStart(radius) == IF EvenLayers(radius) THEN <<1, 1>> ELSE <<-1, 1>>

\* zigzags, or zigzags[2:] + zigzags[:2]
SpinDpv(radius) ==
    IF EvenLayers(radius)
    THEN zigzags
    ELSE <<zigzags[3], zigzags[4], zigzags[1], zigzags[2]>>

\* How many x there are in range(1, radius + 1, 2).
SpinRings(radius) == IF radius >= 1 THEN (radius + 1) \div 2 ELSE 0

\* The sizes with every x repeated twice, the radius too: [[x] * 2 for x in ...].
SpinSizes_twice(radius) ==
    [p \in 1..(2 * SpinRings(radius)) |-> 2 * ((p - 1) \div 2) + 1]

\* The flattened list [[x] * (2 if x != radius else 3) for x in range(1, radius + 1, 2)].
SpinSizes(radius) ==
    LET k == SpinRings(radius)
        len == IF k = 0 THEN 0
               ELSE IF 2 * (k - 1) + 1 = radius THEN 2 * k + 1 ELSE 2 * k
    IN  [p \in 1..len |->
            LET j == IF (p - 1) \div 2 < k THEN (p - 1) \div 2 ELSE k - 1
            IN  2 * j + 1]

\* dpv[idx % 4][(idx + isize) % 2] for idx, size in enumerate(sizes) for isize in range(size),
\* from the 0-based position ix (the code's idx) on.
RECURSIVE SpinSteps(_, _, _)
SpinSteps(dpv, sizes, ix) ==
    IF ix >= Len(sizes) THEN <<>>
    ELSE [i \in 1..sizes[ix + 1] |-> dpv[(ix % 4) + 1][((ix + i - 1) % 2) + 1]]
            \o SpinSteps(dpv, sizes, ix + 1)

\* for idx, (x_val, y_val) in enumerate(zigzags): spun += [spun[idx] + (x_val, y_val)]:
\* the point at position i is the start plus the first i - 1 steps.
SpinAccumulate(start, steps) ==
    [i \in 1..(Len(steps) + 1) |->
        <<start[1] + SumRange([j \in 1..Len(steps) |-> steps[j][1]], 1, i - 1),
          start[2] + SumRange([j \in 1..Len(steps) |-> steps[j][2]], 1, i - 1)>>]

Spun(radius) ==
    SpinAccumulate(SpinStart(radius), SpinSteps(SpinDpv(radius), SpinSizes(radius), 0))

\* The mirror without the displacement: np.dot(spun, [[-1, 0], [0, -1]]).
MirrorDisplace_no_shift(spun) == [i \in 1..Len(spun) |-> <<-spun[i][1], -spun[i][2]>>]

\* np.add(np.dot(spun, [[-1, 0], [0, -1]]), [0, 2])
MirrorDisplace(spun) == [i \in 1..Len(spun) |-> <<-spun[i][1], -spun[i][2] + 2>>]

spin_yarn(radius) ==
    LET spun == Spun(radius)
    IN  [color \in {1, 3} |-> IF color = 3 THEN spun ELSE MirrorDisplace(spun)]

\* The value of yarns before spin_yarn has run.
NoYarns == [color \in {1, 3} |-> <<>>]

(***************************************************************************)
(* src/weaver/ops.py: pin_thread_ends, chop, extend_threads, mirror_chains *)
(***************************************************************************)
\* The right pin taken above the head of the thread instead of its tail.
PinRight_of_head(thread, z_value) == <<thread[1][1], thread[1][2], z_value>>

\* The left pin left at the elevation of the head: thread[0] again.
PinLeft_old_z(thread, z_value) == thread[1]

\* (*thread[0][:2], z_value) and (*thread[-1][:2], z_value)
PinLeft(thread, z_value) == <<thread[1][1], thread[1][2], z_value>>
PinRight(thread, z_value) == <<thread[Len(thread)][1], thread[Len(thread)][2], z_value>>

\* One thread after thread.appendleft(left) and thread += [right].
PinThread(thread, z_value) ==
    <<PinLeft(thread, z_value)>> \o thread \o <<PinRight(thread, z_value)>>

\* The loom as pin_thread_ends leaves it.
PinnedLoom(lm, z_value) == [t \in 1..Len(lm) |-> PinThread(lm[t], z_value)]

\* The set pin_thread_ends returns.
pin_thread_ends(lm, z_value) ==
    UNION {{PinLeft(lm[t], z_value), PinRight(lm[t], z_value)} : t \in 1..Len(lm)}

\* The index list cut down to the first pin of the tour.
PinIndices_first(tour, pns) ==
    LET hits == {x \in 0..(Len(tour) - 1) : tour[x + 1] \in pns}
    IN  IF hits = {} THEN <<>> ELSE <<CHOOSE x \in hits : \A y \in hits : x <= y>>

\* [x for x, t in enumerate(tour) if t in pins], 0-based positions in increasing order.
PinIndices(tour, pns) ==
    LET hits == {x \in 0..(Len(tour) - 1) : tour[x + 1] \in pns}
        RECURSIVE Sorted(_)
        Sorted(S) ==
            IF S = {} THEN <<>>
            ELSE LET m == CHOOSE x \in S : \A y \in S : x <= y
                 IN  <<m>> \o Sorted(S \ {m})
    IN  Sorted(hits)

\* The loop of chop without the leftover tour[j + 1:] after a reversed head.
RECURSIVE ChopLoop_no_rest(_, _, _, _, _)
ChopLoop_no_rest(tour, js, i, acc, head) ==
    IF i < 0 THEN acc
    ELSE LET j == js[i + 1]
         IN  IF i = 0 /\ ~head
             THEN ChopLoop_no_rest(tour, js, i - 1,
                                   acc \o <<Reverse(Slice(tour, 0, j + 1))>>, head)
             ELSE ChopLoop_no_rest(Slice(tour, 0, j), js, i - 1,
                                   Append(acc, Slice(tour, j, Len(tour))), head)

\* The loop of chop, from the enumerated pair (i, js[i + 1]) down to (0, js[1]);
\* tour is the list as the earlier iterations have cut it, head is tour[0] in pins.
RECURSIVE ChopLoop(_, _, _, _, _)
ChopLoop(tour, js, i, acc, head) ==
    IF i < 0 THEN acc
    ELSE LET j == js[i + 1]
         IN  IF i = 0 /\ ~head
             THEN LET first == Reverse(Slice(tour, 0, j + 1))
                      rest == Slice(tour, j + 1, Len(tour))
                  IN  ChopLoop(tour, js, i - 1,
                               IF rest # <<>> THEN acc \o <<first, rest>>
                                              ELSE acc \o <<first>>,
                               head)
             ELSE ChopLoop(Slice(tour, 0, j), js, i - 1,
                           Append(acc, Slice(tour, j, Len(tour))), head)

chop(tour, pns) ==
    IF pns = {} THEN <<Reverse(tour)>>
    ELSE LET js == PinIndices(tour, pns)
         IN  ChopLoop(tour, js, Len(js) - 1, <<>>, Len(tour) > 0 /\ tour[1] \in pns)

\* The inner loop splicing the whole subtour, its first point included.
RECURSIVE ExtendThread_whole(_, _, _, _)
ExtendThread_whole(thread, subs, k, used) ==
    IF k > Len(subs) THEN <<thread, used>>
    ELSE IF k \in used THEN ExtendThread_whole(thread, subs, k + 1, used)
    ELSE IF thread[1] = subs[k][1]
         THEN ExtendThread_whole(Reverse(subs[k]) \o thread, subs, k + 1, used \cup {k})
    ELSE IF thread[Len(thread)] = subs[k][1]
         THEN ExtendThread_whole(thread \o subs[k], subs, k + 1, used \cup {k})
    ELSE ExtendThread_whole(thread, subs, k + 1, used)

\* The inner loop of extend_threads for one thread, from subtour k on:
\* <<the thread, used>> after it.  k is the code's idx + 1.
RECURSIVE ExtendThread(_, _, _, _)
ExtendThread(thread, subs, k, used) ==
    IF k > Len(subs) THEN <<thread, used>>
    ELSE IF k \in used THEN ExtendThread(thread, subs, k + 1, used)
    ELSE IF thread[1] = subs[k][1]
         \* thread.extendleft(subtour[1:]) puts the items on the left one by one
         THEN ExtendThread(Reverse(Tail(subs[k])) \o thread, subs, k + 1, used \cup {k})
    ELSE IF thread[Len(thread)] = subs[k][1]
         THEN ExtendThread(thread \o Tail(subs[k]), subs, k + 1, used \cup {k})
    ELSE ExtendThread(thread, subs, k + 1, used)

\* extend_threads without its last line: no unused subtour joins the loom.
Unused_none(subs, k, used) == <<>>

\* [deque(ch) for idx, ch in enumerate(subtours) if idx not in used], from k on.
RECURSIVE Unused(_, _, _)
Unused(subs, k, used) ==
    IF k > Len(subs) THEN <<>>
    ELSE IF k \in used THEN Unused(subs, k + 1, used)
    ELSE <<subs[k]>> \o Unused(subs, k + 1, used)

\* The outer loop of extend_threads from thread t on: <<the loom, used>> after it.
RECURSIVE ExtendLoop(_, _, _, _)
ExtendLoop(lm, subs, t, used) ==
    IF t > Len(lm) THEN <<lm, used>>
    ELSE LET r == ExtendThread(lm[t], subs, 1, used)
         IN  ExtendLoop([lm EXCEPT ![t] = r[1]], subs, t + 1, r[2])

\* The loop, then loom += the unused subtours.
extend_threads(lm, subs) ==
    LET r == ExtendLoop(lm, subs, 1, {})
    IN  r[1] \o Unused(subs, 1, r[2])

\* The mirror without the sign change: thread += thread[::-1].
MirrorThread_same_z(thread) == thread \o Reverse(thread)

\* The mirror without the reversal: thread += [(x, y, -z) for x, y, z in thread].
MirrorThread_forwards(thread) ==
    thread \o [i \in 1..Len(thread) |-> <<thread[i][1], thread[i][2], -thread[i][3]>>]

\* thread += [(x, y, -z) for x, y, z in thread[::-1]]
MirrorThread(thread) ==
    thread \o [i \in 1..Len(thread) |->
                 LET p == thread[Len(thread) + 1 - i] IN <<p[1], p[2], -p[3]>>]

mirror_chains(lm) == [t \in 1..Len(lm) |-> MirrorThread(lm[t])]

(***************************************************************************)
(* build/lib/src/weaver/utils.py: Weaver and LoomThread                    *)
(***************************************************************************)
\* u < v of two Python tuples of three integers.
Less(u, v) ==
    \/ u[1] < v[1]
    \/ u[1] = v[1] /\ u[2] < v[2]
    \/ u[1] = v[1] /\ u[2] = v[2] /\ u[3] < v[3]

\* (u, v) if u < v else (v, u)
Oriented(u, v) == IF Less(u, v) THEN <<u, v>> ELSE <<v, u>>

\* Weaver.__init__
NewWeaver(data, radius, order) ==
    [data |-> data, order |-> order, joined |-> FALSE,
     z_abs_max |-> radius - 4, zc_abs_sum |-> (radius - 4) * 2]

\* The weaver before merge_cycles has made it.
NoWeaver == [data |-> <<>>, order |-> 0, joined |-> FALSE, z_abs_max |-> 0, zc_abs_sum |-> 0]

\* Weaver.edges.  Python reads the filter as A or (B and C).
WeaverEdges(w) ==
    {Oriented(w.data[i], w.data[i + 1]) :
        i \in {k \in 1..(Len(w.data) - 1) :
                LET u == w.data[k]
                    v == w.data[k + 1]
                IN  \/ (u[1] = 1 /\ v[1] = 3 /\ ~w.joined)
                    \/ (/\ u[1] = 1 /\ v[1] = 1 /\ w.joined
                        /\ u[3] + v[3] \in {-w.zc_abs_sum, w.zc_abs_sum})}}

\* Weaver.get_eadj: a set holding one edge.
get_eadj(edge) ==
    LET a == edge[1][1]
        b == edge[1][2]
        c == edge[1][3]
        x == edge[2][1]
        y == edge[2][2]
        z == edge[2][3]
    IN  {IF a # x THEN <<<<a, b + 2, c>>, <<x, y + 2, z>>>>
                  ELSE <<<<a + 2, b, c>>, <<x + 2, y, z>>>>}

\* data.index(item): the first position, 1-based.
Index(data, item) ==
    CHOOSE i \in 1..Len(data) : data[i] = item /\ \A j \in 1..(i - 1) : data[j] # item

\* align_to without its first branch: always data[lix:] + data[:lix].
align_to_rotate_only(data, lhs, rhs) ==
    LET L == Index(data, lhs)
    IN  SubSeq(data, L, Len(data)) \o SubSeq(data, 1, L - 1)

\* Weaver.align_to, for lhs and rhs in data.  With L = lix + 1 and R = rix + 1:
\* data[rix - 1::-1] is data[0..rix-1] reversed, data[:rix - 1:-1] is data[rix..] reversed.
align_to(data, lhs, rhs) ==
    LET L == Index(data, lhs)
        R == Index(data, rhs)
    IN  IF L < R
        THEN Reverse(SubSeq(data, 1, R - 1)) \o Reverse(SubSeq(data, R, Len(data)))
        ELSE SubSeq(data, L, Len(data)) \o SubSeq(data, 1, L - 1)

\* join that leaves out the donor's first point: self.data += other[1:].
join_tail(w, other) ==
    LET zmax == IF w.joined THEN w.z_abs_max - 4 ELSE w.z_abs_max - 2
    IN  [w EXCEPT !.data = w.data \o Tail(other),
                  !.joined = TRUE,
                  !.z_abs_max = zmax,
                  !.zc_abs_sum = zmax * 2 - 2]

\* Weaver.join
join(w, other) ==
    LET zmax == IF w.joined THEN w.z_abs_max - 4 ELSE w.z_abs_max - 2
    IN  [w EXCEPT !.data = w.data \o other,
                  !.joined = TRUE,
                  !.z_abs_max = zmax,
                  !.zc_abs_sum = zmax * 2 - 2]

\* LoomThread.get_edges
get_edges(data, joined) ==
    {Oriented(data[i], data[i + 1]) :
        i \in {k \in 1..(Len(data) - 1) :
                LET m == data[k]
                    nn == data[k + 1]
                IN  IF joined THEN nn[2] = 1 /\ m[1] = 3 /\ m[2] = 1
                              ELSE nn[2] = 3 /\ m[1] = 1 /\ m[2] = 3}}

\* LoomThread.get_eadjs
get_eadjs(edges) ==
    {LET a == e[1][1]
         b == e[1][2]
         c == e[1][3]
         x == e[2][1]
         y == e[2][2]
         z == e[2][3]
     IN  IF a # x THEN <<<<a, b - 2, c>>, <<x, y - 2, z>>>>
         ELSE IF b # y THEN <<<<a, b, c + 2>>, <<x, y, z + 2>>>>
         ELSE <<<<a - 2, b, c>>, <<x - 2, y, z>>>> :
     e \in {f \in edges : f[2][1] \in {1, 3} /\ f[2][2] \in {1, 3}}}

(***************************************************************************)
(* src/utils.py: check_solution, unpack, profile                           *)
(***************************************************************************)
\* set(unpack(solution)): every scalar of the nested list.
unpack(solution) == {solution[i][k] : i \in 1..Len(solution), k \in 1..3}

Max(S) == CHOOSE m \in S : \A c \in S : c <= m

\* disp of the loop at position i: previous minus current, previous = solution[-1] at first.
Disp(solution, i) ==
    LET prev == IF i = 1 THEN solution[Len(solution)] ELSE solution[i - 1]
    IN  [k \in 1..3 |-> prev[k] - solution[i][k]]

\* [abs(d) for d in disp if d] == [2]
OneStep(disp) ==
    /\ Cardinality({k \in 1..3 : disp[k] # 0}) = 1
    /\ \A k \in 1..3 : disp[k] # 0 => Abs(disp[k]) = 2

\* total_disps after the loop: the sum of every disp, coordinate by coordinate.
TotalDisps(solution) ==
    [k \in 1..3 |->
        SumRange([i \in 1..Len(solution) |-> Disp(solution, i)[k]], 1, Len(solution))]

\* check_solution without its second assertion, len(set(solution)) == order.
check_solution_no_set(solution) ==
    IF solution = <<>> THEN "ValueError"
    ELSE LET order == get_order_from_radius(Max(unpack(solution)))
         IN  IF Len(solution) # order THEN "AssertionError"
             ELSE IF \E i \in 1..Len(solution) : ~OneStep(Disp(solution, i))
                  THEN "AssertionError"
             ELSE IF TotalDisps(solution) # <<0, 0, 0>> THEN "AssertionError"
             ELSE "none"

\* The exception check_solution ends with, "none" when it returns.
check_solution(solution) ==
    IF solution = <<>> THEN "ValueError"   \* max() of an empty sequence
    ELSE LET order == get_order_from_radius(Max(unpack(solution)))
         IN  IF Len(solution) # order THEN "AssertionError"
             ELSE IF Cardinality(Points(solution)) # order THEN "AssertionError"
             ELSE IF \E i \in 1..Len(solution) : ~OneStep(Disp(solution, i))
                  THEN "AssertionError"
             ELSE IF TotalDisps(solution) # <<0, 0, 0>> THEN "AssertionError"
             ELSE "none"

\* The exception that leaves the wrapper of @profile() when weave raised exc:
\* its finally clause divides by order = get_order_from_n(args[0]).
profile(n_level, exc) ==
    IF get_order_from_n(n_level) = 0 THEN "ZeroDivisionError" ELSE exc

(***************************************************************************)
(* build/lib/src/weave.py: weave, and main.py's call of check_solution     *)
(***************************************************************************)
radius == get_radius_from_n(n)
order == get_order_from_n(n)
zinfo == get_z_color_size(n)

\* [(*xy, z) for xy in yarns[color][:size]] for the shell being woven
ShellTour ==
    LET z == zinfo[shell][1]
        yarn == Slice(yarns[zinfo[shell][2]], 0, zinfo[shell][3])
    IN  [i \in 1..Len(yarn) |-> <<yarn[i][1], yarn[i][2], z>>]

Init ==
    /\ n \in (-MaxNeg)..MaxN
    /\ pc = "spin"
    /\ yarns = NoYarns
    /\ shell = 1
    /\ loom = <<>>
    /\ pins = {}
    /\ subtours = <<>>
    /\ weaver = NoWeaver
    /\ idx = 1
    /\ err = "none"

SpinYarn ==
    /\ pc = "spin"
    /\ yarns' = spin_yarn(radius)
    /\ pc' = IF Len(zinfo) >= 1 THEN "pin" ELSE "mirror"
    /\ UNCHANGED <<n, shell, loom, pins, subtours, weaver, idx, err>>

PinThreadEnds ==
    /\ pc = "pin"
    /\ pins' = pin_thread_ends(loom, zinfo[shell][1])
    /\ loom' = PinnedLoom(loom, zinfo[shell][1])
    /\ pc' = "chop"
    /\ UNCHANGED <<n, yarns, shell, subtours, weaver, idx, err>>

Chop ==
    /\ pc = "chop"
    /\ subtours' = chop(ShellTour, pins)
    /\ pc' = "extend"
    /\ UNCHANGED <<n, yarns, shell, loom, pins, weaver, idx, err>>

ExtendThreads ==
    /\ pc = "extend"
    /\ loom' = extend_threads(loom, subtours)
    /\ shell' = shell + 1
    /\ pc' = IF shell < Len(zinfo) THEN "pin" ELSE "mirror"
    /\ UNCHANGED <<n, yarns, pins, subtours, weaver, idx, err>>

MirrorChains ==
    /\ pc = "mirror"
    /\ loom' = mirror_chains(loom)
    /\ pc' = "merge_cycles"
    /\ UNCHANGED <<n, yarns, shell, pins, subtours, weaver, idx, err>>

\* merge_cycles up to its loop: weaver = Weaver(data=loom.pop(0), ...)
MergeInit ==
    /\ pc = "merge_cycles"
    /\ IF loom = <<>>
       THEN /\ err' = profile(n, "IndexError")
            /\ pc' = "failed"
            /\ UNCHANGED <<loom, weaver>>
       ELSE /\ weaver' = NewWeaver(Head(loom), radius, order)
            /\ loom' = Tail(loom)
            /\ pc' = IF Len(loom) = 1 THEN "done" ELSE "merge"
            /\ UNCHANGED err
    /\ idx' = 1
    /\ UNCHANGED <<n, yarns, shell, pins, subtours>>

\* The two intersections of one pass of merge_cycles' loop.
ThreadEdges == get_edges(loom[idx], weaver.joined)
WeftBridges == WeaverEdges(weaver) \cap get_eadjs(ThreadEdges)
WarpBridges(weft_bridge) == ThreadEdges \cap get_eadj(weft_bridge)

\* The weaver and the loom after one pass that popped weft_bridge and warp_bridge.
Merged(weft_bridge, warp_bridge) ==
    LET thread == align_to(loom[idx], warp_bridge[2], warp_bridge[1])
        aligned == [weaver EXCEPT !.data = align_to(weaver.data, weft_bridge[1], weft_bridge[2])]
    IN  [weaver |-> join(aligned, thread), loom |-> [loom EXCEPT ![idx] = thread]]

\* One pass of merge_cycles' loop.  set.pop() returns an arbitrary element of the
\* set and raises KeyError on an empty one.
MergeStep ==
    /\ pc = "merge"
    /\ IF WeftBridges = {}
       THEN /\ err' = profile(n, "KeyError")
            /\ pc' = "failed"
            /\ UNCHANGED <<loom, weaver, idx>>
       ELSE \E weft_bridge \in WeftBridges :
              IF WarpBridges(weft_bridge) = {}
              THEN /\ err' = profile(n, "KeyError")
                   /\ pc' = "failed"
                   /\ UNCHANGED <<loom, weaver, idx>>
              ELSE \E warp_bridge \in WarpBridges(weft_bridge) :
                     /\ weaver' = Merged(weft_bridge, warp_bridge).weaver
                     /\ loom' = Merged(weft_bridge, warp_bridge).loom
                     /\ idx' = idx + 1
                     /\ pc' = IF idx = Len(loom) THEN "done" ELSE "merge"
                     /\ UNCHANGED err
    /\ UNCHANGED <<n, yarns, shell, pins, subtours>>

\* main.py: check_solution(solution) on what weave returned.
CheckSolution ==
    /\ pc = "done"
    /\ err' = check_solution(weaver.data)
    /\ pc' = IF check_solution(weaver.data) = "none" THEN "certified" ELSE "failed"
    /\ UNCHANGED <<n, yarns, shell, loom, pins, subtours, weaver, idx>>

Next ==
    \/ SpinYarn
    \/ PinThreadEnds
    \/ Chop
    \/ ExtendThreads
    \/ MirrorChains
    \/ MergeInit
    \/ MergeStep
    \/ CheckSolution

Spec == Init /\ [][Next]_vars

(***************************************************************************)
(* check_solution on its own, called as tests/test_src/test_utils.py calls *)
(* it: on every short sequence over the corners of the cube {0, 2}^3 and   *)
(* the point (2, 0, 3) of the tests, on the tests' sequence of five points *)
(* and on a Hamiltonian cycle of the cube, started at each of its points.  *)
(***************************************************************************)
CheckPoints ==
    {<<x, y, z>> : x \in {0, 2}, y \in {0, 2}, z \in {0, 2}} \cup {<<2, 0, 3>>}

\* The square of solution_fixture, continued around the cube.
CubeTour ==
    << <<0, 0, 0>>, <<0, 0, 2>>, <<2, 0, 2>>, <<2, 0, 0>>,
       <<2, 2, 0>>, <<2, 2, 2>>, <<0, 2, 2>>, <<0, 2, 0>> >>

\* test_check_solution_nonzero_total_displacement
ReturnToStart ==
    << <<0, 0, 0>>, <<0, 0, 2>>, <<2, 0, 2>>, <<2, 0, 0>>, <<0, 0, 0>> >>

\* CubeTour started at each of its points.
CubeRotations ==
    {SubSeq(CubeTour, k, 8) \o SubSeq(CubeTour, 1, k - 1) : k \in 1..8}

\* Sequences of as many points as the cube has that walk a shorter sequence
\* twice: the right length for their largest coordinate, every point twice.
TwiceAround ==
    {s \o s : s \in [1..(get_order_from_n(1) \div 2) -> CheckPoints]}

\* The Hamiltonian cycles with two of their points exchanged: the right
\* length, no point twice, steps that are not edges of the cube.
Exchanged ==
    {[s EXCEPT ![i] = s[j], ![j] = s[i]] : s \in CubeRotations, i \in 1..8, j \in 1..8}

CheckInputs ==
    UNION {[1..m -> CheckPoints] : m \in 0..MaxSolLen}
    \cup CubeRotations
    \cup {ReturnToStart}
    \cup TwiceAround
    \cup Exchanged

InitCheck ==
    /\ n = 1
    /\ pc = "done"
    /\ yarns = NoYarns
    /\ shell = 1
    /\ loom = <<>>
    /\ pins = {}
    /\ subtours = <<>>
    /\ \E solution \in CheckInputs : weaver = [NoWeaver EXCEPT !.data = solution]
    /\ idx = 1
    /\ err = "none"

NextCheck == CheckSolution

SpecCheck == InitCheck /\ [][NextCheck]_vars

(***************************************************************************)
(* chop on its own: on every tour of up to MaxTourLen distinct points of   *)
(* one row of a slice, with every set of pins among those points and one   *)
(* point off the row.  loom[1] holds the tour, pins the pins, subtours the *)
(* list returned.                                                          *)
(***************************************************************************)
RowPoints == {<<2 * i - 1, 1, -1>> : i \in 1..MaxTourLen}

OffRow == <<1, 3, -1>>

Tours ==
    {s \in UNION {[1..m -> RowPoints] : m \in 0..MaxTourLen} :
        \A i, j \in 1..Len(s) : i # j => s[i] # s[j]}

InitChop ==
    /\ n = 1
    /\ pc = "chop_tour"
    /\ yarns = NoYarns
    /\ shell = 1
    /\ \E tour \in Tours : loom = <<tour>>
    /\ pins \in SUBSET (RowPoints \cup {OffRow})
    /\ subtours = <<>>
    /\ weaver = NoWeaver
    /\ idx = 1
    /\ err = "none"

ChopTour ==
    /\ pc = "chop_tour"
    /\ subtours' = chop(loom[1], pins)
    /\ pc' = "chopped"
    /\ UNCHANGED <<n, yarns, shell, loom, pins, weaver, idx, err>>

NextChop == ChopTour

SpecChop == InitChop /\ [][NextChop]_vars

(***************************************************************************)
(* Weaver.align_to on its own: on the square and the Hamiltonian cycle of  *)
(* the cube, started at each point and walked either way, with every pair  *)
(* of neighbours of the cycle, the last/first pair included, in either     *)
(* order.  loom[1] holds data as given, subtours[1] the pair (lhs, rhs),   *)
(* weaver.data the list as align_to leaves it.                             *)
(***************************************************************************)
\* s started at its k-th point.
Rotate(s, k) == SubSeq(s, k, Len(s)) \o SubSeq(s, 1, k - 1)

AlignCycles ==
    LET base == {SubSeq(CubeTour, 1, 4), CubeTour}
        turned == UNION {{Rotate(c, k) : k \in 1..Len(c)} : c \in base}
    IN  turned \cup {Reverse(c) : c \in turned}

\* The pairs of neighbours of the cycle c, the last/first pair included.
NeighbourPairs(c) ==
    LET next(i) == IF i = Len(c) THEN 1 ELSE i + 1
    IN  UNION {{<<c[i], c[next(i)]>>, <<c[next(i)], c[i]>>} : i \in 1..Len(c)}

InitAlign ==
    /\ n = 1
    /\ pc = "align_to"
    /\ yarns = NoYarns
    /\ shell = 1
    /\ \E c \in AlignCycles :
          /\ loom = <<c>>
          /\ \E edge \in NeighbourPairs(c) : subtours = <<edge>>
    /\ pins = {}
    /\ weaver = NoWeaver
    /\ idx = 1
    /\ err = "none"

AlignTo ==
    /\ pc = "align_to"
    /\ weaver' = [weaver EXCEPT !.data = align_to(loom[1], subtours[1][1], subtours[1][2])]
    /\ pc' = "aligned"
    /\ UNCHANGED <<n, yarns, shell, loom, pins, subtours, idx, err>>

NextAlign == AlignTo

SpecAlign == InitAlign /\ [][NextAlign]_vars

(***************************************************************************)
(* Properties                                                              *)
(***************************************************************************)
\* p and q differ in exactly one coordinate, and by exactly 2 there.
UnitStep(p, q) ==
    /\ Cardinality({k \in DOMAIN p : p[k] # q[k]}) = 1
    /\ \A k \in DOMAIN p : p[k] # q[k] => Abs(p[k] - q[k]) = 2

NoRepeat(s) == Cardinality(Points(s)) = Len(s)

OpenPath(s) == \A i \in 1..(Len(s) - 1) : UnitStep(s[i], s[i + 1])

ClosedCycle(s) == Len(s) >= 1 /\ OpenPath(s) /\ UnitStep(s[Len(s)], s[1])

\* weave(n) has returned; weaver.data is the sequence it returned.
Returned == pc = "done"

\* C1: for every n >= 1, weave(n) returns exactly 4*n*(n+1)*(n+2)/3 points, no
\* point twice; for n = 1 these are the 8 corners (+-1, +-1, +-1).
C1_OrderAndDistinct ==
    (Returned /\ n >= 1) =>
        /\ Len(weaver.data) = (4 * n * (n + 1) * (n + 2)) \div 3
        /\ NoRepeat(weaver.data)
        /\ n = 1 => Points(weaver.data) = {<<x, y, z>> : x \in {-1, 1}, y \in {-1, 1}, z \in {-1, 1}}

C1_Witness == Returned /\ n = 4 /\ Len(weaver.data) = 160 /\ Len(loom) = 2

\* C2: for every n >= 1, consecutive points of weave(n), and the last with the
\* first, differ in exactly one coordinate and by exactly 2.
C2_UnitSteps == (Returned /\ n >= 1) => ClosedCycle(weaver.data)

C2_Witness == Returned /\ n = 5 /\ weaver.joined /\ idx = 3

\* C3: two runs of weave with the same n give the same sequence: no step has more
\* than one possible outcome; in particular every pair of edges the two set.pop()
\* of a pass of merge_cycles may return leaves the same weaver and the same loom.
C3_OneOutcome ==
    pc = "merge" =>
        \A b1, b2 \in WeftBridges :
            \A d1 \in WarpBridges(b1), d2 \in WarpBridges(b2) :
                Merged(b1, d1) = Merged(b2, d2)

\* C4: for n below 1 weave fails before any stage has run: the run is either
\* not started or failed, and spin_yarn has not made the yarns.
C4_RejectedAtOnce ==
    n < 1 => (pc \in {"spin", "failed"} /\ yarns = NoYarns)

\* One of the two intersections of the pass about to run is empty or holds
\* more than one edge.
BadBridge ==
    \/ Cardinality(WeftBridges) # 1
    \/ \E b \in WeftBridges : Cardinality(WarpBridges(b)) # 1

\* C5: a pass of merge_cycles whose bridge intersection is empty or holds more
\* than one edge ends in a fatal failure; it never picks one edge and goes on.
C5_FailsLoudly ==
    [][(pc = "merge" /\ BadBridge) => pc' = "failed"]_vars

\* C6: merge_cycles on the cycles mirror_chains made returns one closed cycle
\* holding exactly the points of all of them, each once: the seed is the first
\* cycle, and every pass adds exactly the points of the donor, once each, to a
\* weaver that stays one closed cycle without a repeated point.
C6_MergeKeepsPoints ==
    [][/\ (pc = "merge_cycles" /\ pc' # "failed") =>
            /\ weaver'.data = Head(loom)
            /\ ClosedCycle(weaver'.data) /\ NoRepeat(weaver'.data)
            /\ \A t \in 1..Len(loom') : ClosedCycle(loom'[t]) /\ NoRepeat(loom'[t])
       /\ (pc = "merge" /\ pc' # "failed") =>
            /\ Points(weaver'.data) = Points(weaver.data) \cup Points(loom[idx])
            /\ Len(weaver'.data) = Len(weaver.data) + Len(loom[idx])
            /\ ClosedCycle(weaver'.data) /\ NoRepeat(weaver'.data)
            /\ pc' = "done" <=> idx = Len(loom)
      ]_vars

C6_Witness == Returned /\ Len(loom) = 3 /\ idx = 4 /\ n = 6

\* spin_yarn(2n - 1) has run for a layer count n >= 1.
Spooled == pc # "spin" /\ n >= 1

\* C7: for every n >= 1 each of the two yarns of spin_yarn(2n - 1) has
\* 2*n*(n+1) points, none twice, and consecutive points differ by exactly 2 in
\* exactly one of x, y.
C7_YarnsArePaths ==
    Spooled =>
        \A color \in {1, 3} :
            /\ Len(yarns[color]) = 2 * n * (n + 1)
            /\ NoRepeat(yarns[color])
            /\ OpenPath(yarns[color])

C7_Witness == pc = "pin" /\ n = 3 /\ shell = 1 /\ Len(yarns[1]) = 24

InnermostCorners == {<<1, 1>>, <<-1, 1>>}

C9_YarnsDisjoint ==
    Spooled => Points(yarns[1]) \cap Points(yarns[3]) = {}

\* C9 amended: the colour-1 yarn is the colour-3 yarn reflected through the
\* origin and shifted by one step along y, position by position, so the two
\* yarns never hold the same point at the same position; as point sets they
\* are not disjoint: both hold (1, 1) and (-1, 1).
C9_YarnsMirrored ==
    Spooled =>
        /\ Len(yarns[1]) = Len(yarns[3])
        /\ \A i \in 1..Len(yarns[3]) :
            /\ yarns[1][i] = <<-yarns[3][i][1], 2 - yarns[3][i][2]>>
            /\ yarns[1][i] # yarns[3][i]
        /\ InnermostCorners \subseteq Points(yarns[1]) \cap Points(yarns[3])

C9_Witness ==
    /\ pc = "extend" /\ n = 2
    /\ yarns[3][2] = <<1, 3>> /\ yarns[1][2] = <<-1, -1>>
    /\ <<-1, -1>> \in Points(yarns[3])

\* check_solution has run on weaver.data.
Checked == pc \in {"certified", "failed"}

\* C10: check_solution raises no AssertionError for a sequence of distinct points
\* (a cycle proper, of at least 4) in which every consecutive pair and the pair
\* (last, first) differ by exactly 2 in exactly one coordinate, such as the square
\* (0,0,0), (0,0,2), (2,0,2), (2,0,0).
C10_AcceptsClosedCycles ==
    (/\ Checked
     /\ Len(weaver.data) >= 4
     /\ NoRepeat(weaver.data)
     /\ ClosedCycle(weaver.data)) => err # "AssertionError"

\* The order of the cube grid whose radius is the largest coordinate of s:
\* 4m(m+1)(m+2)/3 with m = (largest + 1) div 2 layers.
OrderOfLargest(s) ==
    LET largest == CHOOSE c \in {s[i][k] : i \in 1..Len(s), k \in 1..3} :
                       \A i \in 1..Len(s), k \in 1..3 : s[i][k] <= c
        m == (largest + 1) \div 2
    IN  (4 * m * (m + 1) * (m + 2)) \div 3

C12_ExactlyOneBridge ==
    (pc = "merge" /\ n >= 1) =>
        /\ Cardinality(WeftBridges) = 1
        /\ \A weft_bridge \in WeftBridges : Cardinality(WarpBridges(weft_bridge)) = 1

\* The elevations of the points the loom holds.
Elevations(lm) == UNION {{lm[t][i][3] : i \in 1..Len(lm[t])} : t \in 1..Len(lm)}

\* weave is between two shells, shell - 1 of them woven, or has woven them all.
BetweenShells == pc \in {"pin", "mirror"} /\ n >= 1

\* C13 as stated: weave weaves the shells from the one nearest zero, z = -1,
\* down to z = -(2n-1): after k shells the loom holds the elevations -1, -3, ...,
\* -(2k-1).
C13_FromMinusOneDown ==
    BetweenShells => Elevations(loom) = {-(2 * i - 1) : i \in 1..(shell - 1)}

\* C13 amended: weave weaves the shells from the most negative elevation,
\* z = -(2n-1), up to z = -1 in steps of 2: after k shells the loom holds the
\* elevations -(2n-1), -(2n-1) + 2, ..., -(2n-1) + 2(k-1).
C13_FromMinusRadiusUp ==
    BetweenShells => Elevations(loom) = {-(2 * n - 1) + 2 * (i - 1) : i \in 1..(shell - 1)}

C13_Witness == pc = "pin" /\ n = 3 /\ shell = 3 /\ Elevations(loom) = {-5, -3}

\* C14: for every n >= 1, get_z_color_size(n) yields exactly n triples; the i-th
\* has elevation -(2n-1) + 2(i-1), slice size 2i(i+1) and a colour in {1, 3} that
\* alternates from shell to shell, starting with 3 when n is odd and with 1 when
\* n is even.
C14_ZColorSize ==
    n >= 1 =>
        /\ Len(zinfo) = n
        /\ \A i \in 1..n :
            /\ zinfo[i][1] = -(2 * n - 1) + 2 * (i - 1)
            /\ zinfo[i][1] % 2 = 1 /\ zinfo[i][1] <= -1
            /\ zinfo[i][3] = 2 * i * (i + 1)
            /\ zinfo[i][2] \in {1, 3}
            /\ i < n => zinfo[i + 1][2] # zinfo[i][2]
        /\ zinfo[1][2] = (IF n % 2 = 1 THEN 3 ELSE 1)

\* The second shell of weave(5) is being chopped: the slice of 12 points of the
\* colour-1 yarn at z = -7.
C14_Witness ==
    /\ pc = "chop" /\ n = 5 /\ shell = 2
    /\ zinfo[shell] = <<-7, 1, 12>>
    /\ Len(ShellTour) = 12 /\ ShellTour[1] = <<yarns[1][1][1], yarns[1][1][2], -7>>

\* The points the threads of a loom hold, and how many places they fill.
LoomPoints(lm) == UNION {Points(lm[t]) : t \in 1..Len(lm)}
LoomSize(lm) == SumRange([t \in 1..Len(lm) |-> Len(lm[t])], 1, Len(lm))

\* No point twice in the loom, inside one thread or in two threads.
LoomDistinct(lm) == Cardinality(LoomPoints(lm)) = LoomSize(lm)

\* The points of the slice of shell k: the first 2k(k+1) points of the yarn of
\* its colour, at its elevation.
SlicePoints(k) ==
    LET z == -(2 * n - 1) + 2 * (k - 1)
        yarn == yarns[IF (n + k) % 2 = 0 THEN 3 ELSE 1]
    IN  {<<yarn[i][1], yarn[i][2], z>> : i \in 1..(2 * k * (k + 1))}

SlicesTo(k) == UNION {SlicePoints(j) : j \in 1..k}

\* C15: after every completed shell step of weave (pin_thread_ends, chop,
\* extend_threads) and after mirror_chains no point occurs twice in the loom,
\* inside one thread or in two, and the threads together hold exactly the
\* points of the slices processed so far; after mirror_chains, those points and
\* their images under z -> -z.
C15_LoomHoldsSlices ==
    /\ BetweenShells =>
            /\ LoomDistinct(loom)
            /\ LoomPoints(loom) = SlicesTo(shell - 1)
    /\ (pc = "merge_cycles" /\ n >= 1) =>
            /\ LoomDistinct(loom)
            /\ LoomPoints(loom) =
                    SlicesTo(n) \cup {<<p[1], p[2], -p[3]>> : p \in SlicesTo(n)}

C15_Witness ==
    /\ pc = "pin" /\ n = 4 /\ shell = 4
    /\ Len(loom) = 2 /\ LoomSize(loom) = 4 + 12 + 24
    /\ <<1, 1, -3>> \in LoomPoints(loom)

\* C16: in every state between steps (after pin_thread_ends, after
\* extend_threads for each shell, after mirror_chains and after each
\* Weaver.join) every two consecutive points of every thread of the loom and of
\* the weaver differ by exactly 2 in exactly one coordinate.
C16_ConsecutiveUnitSteps ==
    (pc # "spin" /\ n >= 1) =>
        /\ \A t \in 1..Len(loom) : OpenPath(loom[t])
        /\ OpenPath(weaver.data)

\* weave(6) after its second join: the weaver holds three of the four cycles.
C16_Witness ==
    /\ pc = "merge" /\ n = 6 /\ idx = 3 /\ weaver.joined
    /\ Len(loom) = 3 /\ Len(weaver.data) > Len(loom[3])
    /\ UnitStep(weaver.data[1], weaver.data[2])

\* C17: mirror_chains appends to every thread of the loom its own reverse with
\* every z negated, doubling its length, and afterwards every thread is a
\* closed cycle: all consecutive pairs and the pair (last, first) differ by
\* exactly 2 in exactly one coordinate.
C17_MirrorClosesThreads ==
    [][(pc = "mirror" /\ n >= 1) =>
          /\ Len(loom') = Len(loom)
          /\ \A t \in 1..Len(loom) :
                LET old == loom[t]
                    new == loom'[t]
                IN  /\ Len(new) = 2 * Len(old)
                    /\ SubSeq(new, 1, Len(old)) = old
                    /\ \A i \in 1..Len(old) :
                          new[Len(old) + i] =
                              <<old[Len(old) + 1 - i][1], old[Len(old) + 1 - i][2],
                                -old[Len(old) + 1 - i][3]>>
                    /\ ClosedCycle(new)
      ]_vars

\* The three threads of weave(4) after mirror_chains, 160 points together.
C17_Witness ==
    /\ pc = "merge_cycles" /\ n = 4 /\ Len(loom) = 3
    /\ LoomSize(loom) = 160
    /\ \A t \in 1..3 :
          /\ loom[t][1][3] = -1
          /\ loom[t][Len(loom[t])] = <<loom[t][1][1], loom[t][1][2], 1>>

\* The threads of lm one of whose ends is the first point of fragment f.
Matching(lm, f) == {t \in 1..Len(lm) : f[1] \in {lm[t][1], lm[t][Len(lm[t])]}}

\* The first thread of lm, in loom order, that fragment f matches; 0 if none.
FirstMatch(lm, f) ==
    IF Matching(lm, f) = {} THEN 0
    ELSE CHOOSE t \in Matching(lm, f) : \A u \in Matching(lm, f) : t <= u

\* C18: in one extend_threads pass every fragment is used exactly once: a
\* fragment whose first point is the head or the tail of a thread is spliced,
\* without that first point, onto that end of the first such thread in loom
\* order; a fragment matching no thread end is appended to the loom as a new
\* thread; no fragment is attached to two threads and none is dropped.
C18_EveryFragmentOnce ==
    [][(pc = "extend" /\ n >= 1) =>
          LET K == 1..Len(subtours)
              fresh == {k \in K : FirstMatch(loom, subtours[k]) = 0}
          IN  /\ Len(loom') = Len(loom) + Cardinality(fresh)
              /\ \A k \in K \ fresh :
                    LET f == subtours[k]
                        t == FirstMatch(loom, f)
                        new == loom'[t]
                    IN  IF f[1] = loom[t][1]
                        THEN SubSeq(new, 1, Len(f)) = Reverse(f)
                        ELSE SubSeq(new, Len(new) - Len(f) + 1, Len(new)) = f
              /\ \A k \in fresh :
                    loom'[Len(loom) + Cardinality({j \in fresh : j <= k})] = subtours[k]
              /\ \A t \in 1..Len(loom) :
                    Len(loom'[t]) = Len(loom[t]) +
                        SumRange([k \in K |-> IF FirstMatch(loom, subtours[k]) = t
                                              THEN Len(subtours[k]) - 1 ELSE 0],
                                 1, Len(subtours))
      ]_vars

\* The third shell of weave(4) has been woven: of its three fragments one went
\* onto the head of the only thread, one onto its tail, one became a thread.
C18_Witness ==
    /\ pc = "pin" /\ n = 4 /\ shell = 4
    /\ Len(subtours) = 3 /\ Len(loom) = 2
    /\ SubSeq(loom[1], 1, Len(subtours[1])) = Reverse(subtours[1])
    /\ SubSeq(loom[1], Len(loom[1]) - Len(subtours[2]) + 1, Len(loom[1])) = subtours[2]
    /\ loom[2] = subtours[3]

\* chop has returned subtours for the tour loom[1] and the pins.
Chopped == pc = "chopped"

\* C19: for a non-empty pin set, every point of the tour that is a pin is the
\* first point of exactly one fragment chop returns, and no fragment has a pin
\* anywhere but at its first position.
C19_PinsLeadFragments ==
    (Chopped /\ pins # {}) =>
        /\ \A p \in Points(loom[1]) \cap pins :
              Cardinality({k \in 1..Len(subtours) :
                              subtours[k] # <<>> /\ subtours[k][1] = p}) = 1
        /\ \A k \in 1..Len(subtours) :
              \A i \in 2..Len(subtours[k]) : subtours[k][i] \notin pins

\* A tour of four points pinned at its second and fourth: the fourth alone,
\* the first two reversed, and the third, which holds no pin.
C19_Witness ==
    /\ Chopped
    /\ loom[1] = << <<1, 1, -1>>, <<3, 1, -1>>, <<5, 1, -1>>, <<7, 1, -1>> >>
    /\ pins = {<<3, 1, -1>>, <<7, 1, -1>>}
    /\ subtours = << << <<7, 1, -1>> >>,
                     << <<3, 1, -1>>, <<1, 1, -1>> >>,
                     << <<5, 1, -1>> >> >>

\* b is the closed cycle a: a rotation of a or of a walked in reverse.
SameCycle(a, b) ==
    \E k \in 1..Len(a) : b = Rotate(a, k) \/ b = Rotate(Reverse(a), k)

\* C20: for a closed cycle data of distinct points and two points lhs, rhs that
\* are neighbours in it (consecutive in the list in either order, or the
\* last/first pair), after align_to(data, lhs, rhs) the list is the same closed
\* cycle, its first point is lhs and its last point is rhs.
C20_AlignsNeighbours ==
    pc = "aligned" =>
        /\ SameCycle(loom[1], weaver.data)
        /\ weaver.data[1] = subtours[1][1]
        /\ weaver.data[Len(weaver.data)] = subtours[1][2]

\* C21: after weave has processed the shell at elevation z, the first and the
\* last point of every thread of the loom lie at elevation z; after the last
\* shell every thread starts and ends at z = -1.
C21_ThreadEndsAtShell ==
    (BetweenShells /\ shell >= 2) =>
        LET z == -(2 * n - 1) + 2 * (shell - 2)
        IN  /\ \A t \in 1..Len(loom) :
                  /\ loom[t] # <<>>
                  /\ loom[t][1][3] = z
                  /\ loom[t][Len(loom[t])][3] = z
            /\ pc = "mirror" => z = -1

\* The three threads of weave(4) before mirror_chains: all six ends at z = -1,
\* the first thread reaching down to the first shell at z = -7.
C21_Witness ==
    /\ pc = "mirror" /\ n = 4 /\ shell = 5 /\ Len(loom) = 3
    /\ \A t \in 1..3 : loom[t][1][3] = -1 /\ loom[t][Len(loom[t])][3] = -1
    /\ -7 \in Elevations(<<loom[1]>>)

\* C22: for a non-empty tour of distinct points and a pin set that is empty or
\* holds at least one point of the tour, the fragments chop returns are all
\* non-empty and together hold every point of the tour exactly once and no
\* other point.
C22_FragmentsPartitionTour ==
    (/\ Chopped
     /\ loom[1] # <<>>
     /\ pins = {} \/ pins \cap Points(loom[1]) # {}) =>
        /\ \A k \in 1..Len(subtours) : subtours[k] # <<>>
        /\ LoomPoints(subtours) = Points(loom[1])
        /\ LoomSize(subtours) = Len(loom[1])

\* A tour of four points pinned at its third and at a point off the tour: the
\* first three reversed, then the fourth, left over without a pin.
C22_Witness ==
    /\ Chopped
    /\ loom[1] = << <<1, 1, -1>>, <<3, 1, -1>>, <<5, 1, -1>>, <<7, 1, -1>> >>
    /\ pins = {<<5, 1, -1>>, OffRow}
    /\ subtours = << << <<5, 1, -1>>, <<3, 1, -1>>, <<1, 1, -1>> >>,
                     << <<7, 1, -1>> >> >>

====
